---- MODULE Spec2Model ----
\* A model of custodian's Gaussian error handler
\* (src/custodian/gaussian/handlers.py): GaussianErrorHandler.check scans the
\* output log and GaussianErrorHandler.correct rewrites the input file.
EXTENDS Integers, Sequences, FiniteSets, TLC

VARIABLES
    cfg,            \* per handler: the constructor arguments kept on self
    pc,             \* per handler: "none", "new", "checked", "check_raised",
                    \*   "corrected", "failed" (actions None), "correct_raised"
    gin,            \* per handler: self.gin, <<>> for None, else <<input>>
    errors,         \* per handler: self.errors
    conv_data,      \* per handler: self.conv_data
    ret,            \* per handler: what the last call returned or raised
    input_file,     \* per job directory: text of the file at self.input_file
    prev_file,      \* per job directory: <<>> or <<text>> of input_file + '.prev'
    output_file,    \* per job directory: the log at self.output_file
    archive,        \* per job directory: <<>> or <<last package written by backup>>
    activate_better_scf_guess,  \* the class attribute, shared by all handlers
    start_input,    \* history: text of input_file when the current cycle's check read it
    lot_count,      \* history: how often branch 1c has been applied in this process
    job_dir,        \* per job directory: which of '*.chk', '*.fchk' the last correct found
    streak          \* history, per handler: the remedies applied in its consecutive
                    \*   cycles that detected scf_convergence

vars == <<cfg, pc, gin, errors, conv_data, ret, input_file, prev_file,
          output_file, archive, activate_better_scf_guess, start_input,
          lot_count, job_dir, streak>>

-----------------------------------------------------------------------------
\* Bounds of the model.

\* longest log (in lines) read by check in the scanning specification
MaxScanLen == 2

\* The handler instances (one per job directory) that can live in the process.
Handlers == {"jobA", "jobB"}

\* lot_count stops counting here
LotCap == 2

\* streak stops growing at this length
StreakCap == 4

None == <<>>
Some(x) == <<x>>

-----------------------------------------------------------------------------
\* Class attributes.

error_defs ==
    ("Optimization stopped" :> "opt_steps") @@
    ("Convergence failure" :> "scf_convergence") @@
    ("FormBX had a problem" :> "linear_bend") @@
    ("Inv3 failed in PCMMkU" :> "solute_solvent_surface")

Literals == DOMAIN error_defs

conv_critera == {"max_force", "rms_force", "max_disp", "rms_disp"}

-----------------------------------------------------------------------------
\* Values of the Gaussian input.  A parameter value is <<tag, n>>: <<"none", 0>>
\* is Python's None, <<"str", n>> the string of the decimal digits of n and
\* <<"int", n>> the integer n.  A route directive is a record [kind, s, d]:
\* kind "none" (a bare keyword), "str" (keyword=s) or "dict" (keyword=(d)).

NoneVal == <<"none", 0>>
StrVal(n) == <<"str", n>>
IntVal(n) == <<"int", n>>

EmptyDict == [k \in {} |-> NoneVal]

Bare == [kind |-> "none", s |-> "", d |-> EmptyDict]
Word(w) == [kind |-> "str", s |-> w, d |-> EmptyDict]
Dict(f) == [kind |-> "dict", s |-> "", d |-> f]

\* faulty variant of str: the number is left as it is, as if line 172
\* compared the parsed cap with scf_max_cycles itself
str_Omitted(v) == v

\* str(x) of Python for the integers and digit strings of the model
str(v) == IF v[1] = "int" THEN StrVal(v[2]) ELSE v

\* '{}={}'.format(par, val) of write_file: the value as it is printed
FormatValue(v) == IF v[1] = "int" THEN StrVal(v[2]) ELSE v

\* str.lower() on the keywords of the model
lower(w) ==
    CASE w = "SCF" -> "scf"
      [] w = "MaxCycle" -> "maxcycle"
      [] w = "Opt" -> "opt"
      [] w = "XQC" -> "xqc"
      [] w = "Tight" -> "tight"
      [] OTHER -> w

\* _recursive_lowercase on a dict of parameter values (the inner dict of a
\* directive): keys are lower-cased, None and numbers are returned as they are,
\* digit strings are their own lower case.
LowercaseDict(f) ==
    [k \in {lower(j) : j \in DOMAIN f} |->
        f[CHOOSE j \in DOMAIN f : lower(j) = k]]

LowercaseDirective(v) ==
    CASE v.kind = "dict" -> Dict(LowercaseDict(v.d))
      [] v.kind = "str" -> Word(lower(v.s))
      [] OTHER -> v

_recursive_lowercase(route) ==
    [k \in {lower(j) : j \in DOMAIN route} |->
        LowercaseDirective(route[CHOOSE j \in DOMAIN route : lower(j) = k])]

-----------------------------------------------------------------------------
\* The input file as text and GaussianInput.from_file / write_file.
\* A text is [route, functional, basis_set, link0, charge, spin_multiplicity,
\* title]; its route is the sequence of the route line's tokens in file order,
\* each token [key, kind, s, d] with d the sequence of <<key, value>> pairs
\* between the parentheses.  The parsed input holds the route as dicts.

\* dict built by assigning the pairs of a sequence in order (a later key wins)
DictOfPairs(pairs) ==
    [k \in {pairs[i][1] : i \in DOMAIN pairs} |->
        LET last == CHOOSE i \in DOMAIN pairs :
                       /\ pairs[i][1] = k
                       /\ \A j \in DOMAIN pairs : pairs[j][1] = k => j <= i
        IN  pairs[last][2]]

DirectiveOfToken(tok) ==
    CASE tok.kind = "dict" -> Dict(DictOfPairs(tok.d))
      [] tok.kind = "str" -> Word(tok.s)
      [] OTHER -> Bare

from_file(text) ==
    [route_parameters |->
        [k \in {text.route[i].key : i \in DOMAIN text.route} |->
            LET last == CHOOSE i \in DOMAIN text.route :
                           /\ text.route[i].key = k
                           /\ \A j \in DOMAIN text.route :
                                 text.route[j].key = k => j <= i
            IN  DirectiveOfToken(text.route[last])],
     functional |-> text.functional,
     basis_set |-> text.basis_set,
     link0_parameters |-> text.link0,
     charge |-> text.charge,
     spin_multiplicity |-> text.spin_multiplicity,
     title |-> text.title]

\* sorted() of Python on the keywords the handler can hold at write time
KeyOrder == <<"MaxCycle", "Opt", "SCF", "Tight", "XQC", "geom", "maxcycle",
              "opt", "qc", "scf", "tight", "xqc", "yqc">>

SortedKeys(S) ==
    LET idx == {i \in DOMAIN KeyOrder : KeyOrder[i] \in S}
        RECURSIVE Build(_)
        Build(I) == IF I = {} THEN <<>>
                    ELSE LET m == CHOOSE i \in I : \A j \in I : i <= j
                         IN  <<KeyOrder[m]>> \o Build(I \ {m})
    IN  Build(idx)

\* para_dict_to_string of write_file on an inner dict: sorted keys, a None
\* value prints the bare key, any other value prints key=str(value)
PairsOfDict(f) ==
    LET ks == SortedKeys(DOMAIN f)
    IN  [i \in DOMAIN ks |-> <<ks[i], FormatValue(f[ks[i]])>>]

TokenOfDirective(k, v) ==
    CASE v.kind = "dict" -> [key |-> k, kind |-> "dict", s |-> "", d |-> PairsOfDict(v.d)]
      [] v.kind = "str" -> [key |-> k, kind |-> "str", s |-> v.s, d |-> <<>>]
      [] OTHER -> [key |-> k, kind |-> "none", s |-> "", d |-> <<>>]

write_file(g) ==
    [route |->
        LET ks == SortedKeys(DOMAIN g.route_parameters)
        IN  [i \in DOMAIN ks |-> TokenOfDirective(ks[i], g.route_parameters[ks[i]])],
     functional |-> g.functional,
     basis_set |-> g.basis_set,
     link0 |-> g.link0_parameters,
     charge |-> g.charge,
     spin_multiplicity |-> g.spin_multiplicity,
     title |-> g.title]

-----------------------------------------------------------------------------
\* The output log and GaussianErrorHandler.check.
\* A line of the log is [lits, crit, val, thr]: lits are the failure literals
\* the line contains, leftmost first; crit is the key of the conv_critera
\* pattern that matches the line ("" when none does), val the token its group 2
\* captures (<<"num", n>> a number, <<"txt", 0>> any other text) and thr the
\* number its group 3 captures.

\* error_patt.search(line).group(0): the leftmost literal of the line
error_patt(line) == IF line.lits = <<>> THEN None ELSE Some(Head(line.lits))

EmptyConv == [values |-> [k \in {} |-> <<>>], thresh |-> [k \in {} |-> 0]]

\* the state of the loop over the lines; raised is "" until a line raises
ScanStart == [errors |-> {}, error_patts |-> {}, conv_data |-> EmptyConv,
              raised |-> ""]

\* faulty variant of TrackLine: the threshold is stored on every match
TrackLine_OverwriteThresh(st, line) ==
    LET k == line.crit
        cd == st.conv_data
    IN  IF line.val[1] # "num"
        THEN [st EXCEPT !.raised = "ValueError"]
        ELSE [st EXCEPT !.conv_data =
                 [values |-> (k :> (IF k \in DOMAIN cd.values
                                    THEN Append(cd.values[k], line.val[2])
                                    ELSE <<line.val[2]>>)) @@ cd.values,
                  thresh |-> (k :> line.thr) @@ cd.thresh]]

\* lines 140-149 on one line whose pattern k matches: float(m.group(2)) is
\* evaluated before anything is stored and raises ValueError on text
TrackLine(st, line) ==
    LET k == line.crit
        cd == st.conv_data
    IN  IF line.val[1] # "num"
        THEN [st EXCEPT !.raised = "ValueError"]
        ELSE IF k \notin DOMAIN cd.values
        THEN [st EXCEPT !.conv_data =
                 [values |-> (k :> <<line.val[2]>>) @@ cd.values,
                  thresh |-> (k :> line.thr) @@ cd.thresh]]
        ELSE [st EXCEPT !.conv_data.values[k] = Append(@, line.val[2])]

\* lines 133-149: the body of the loop for one line
ScanLine(st, line, track) ==
    LET m == error_patt(line)
        st1 == IF m # None
               THEN [st EXCEPT !.error_patts = @ \cup {m[1]},
                               !.errors = @ \cup {error_defs[m[1]]}]
               ELSE st
    IN  IF track /\ line.crit \in conv_critera
        THEN TrackLine(st1, line)
        ELSE st1

\* lines 132-149: the loop, left at the first line that raises
RECURSIVE ScanLog(_, _, _)
ScanLog(st, lines, track) ==
    IF lines = <<>> \/ st.raised # "" THEN st
    ELSE ScanLog(ScanLine(st, Head(lines), track), Tail(lines), track)

\* what a call returns or raises
Returned(op, flag, errs, acts) ==
    [op |-> op, exc |-> "", flag |-> flag, errors |-> errs, actions |-> acts]
Raised(op, exc) ==
    [op |-> op, exc |-> exc, flag |-> FALSE, errors |-> {}, actions |-> None]
NoCall == Returned("", FALSE, {}, None)

\* lines 123-125: the input check parses and normalises
ParseInput(text) ==
    [from_file(text) EXCEPT !.route_parameters = _recursive_lowercase(@)]

\* faulty variant of Check: line 127 is missing, the signatures of the earlier
\* cycle stay in self.errors
Check_NoReset(h, log) ==
    LET g == ParseInput(input_file[h])
        track == cfg[h].check_convergence /\ "opt" \in DOMAIN g.route_parameters
        st == ScanLog([ScanStart EXCEPT !.errors = errors[h]], log, track)
    IN  /\ pc[h] # "none"
        /\ output_file' = [output_file EXCEPT ![h] = log]
        /\ start_input' = [start_input EXCEPT ![h] = input_file[h]]
        /\ gin' = [gin EXCEPT ![h] = Some(g)]
        /\ errors' = [errors EXCEPT ![h] = st.errors]
        /\ conv_data' = [conv_data EXCEPT ![h] = Some(st.conv_data)]
        /\ IF st.raised # ""
           THEN /\ pc' = [pc EXCEPT ![h] = "check_raised"]
                /\ ret' = [ret EXCEPT ![h] = Raised("check", st.raised)]
           ELSE /\ pc' = [pc EXCEPT ![h] = "checked"]
                /\ ret' = [ret EXCEPT ![h] =
                              Returned("check", Cardinality(st.errors) > 0,
                                       st.errors, None)]
        /\ streak' = [streak EXCEPT ![h] =
                          IF "scf_convergence" \in st.errors THEN @ ELSE <<>>]
        /\ UNCHANGED <<cfg, input_file, prev_file, archive,
                       activate_better_scf_guess, lot_count, job_dir>>

\* check() of handler h when the file at self.output_file holds log
Check(h, log) ==
    LET g == ParseInput(input_file[h])
        track == cfg[h].check_convergence /\ "opt" \in DOMAIN g.route_parameters
        st == ScanLog(ScanStart, log, track)
    IN  /\ pc[h] # "none"
        /\ output_file' = [output_file EXCEPT ![h] = log]
        /\ start_input' = [start_input EXCEPT ![h] = input_file[h]]
        /\ gin' = [gin EXCEPT ![h] = Some(g)]
        /\ errors' = [errors EXCEPT ![h] = st.errors]
        /\ conv_data' = [conv_data EXCEPT ![h] = Some(st.conv_data)]
        /\ IF st.raised # ""
           THEN /\ pc' = [pc EXCEPT ![h] = "check_raised"]
                /\ ret' = [ret EXCEPT ![h] = Raised("check", st.raised)]
           ELSE /\ pc' = [pc EXCEPT ![h] = "checked"]
                /\ ret' = [ret EXCEPT ![h] =
                              Returned("check", Cardinality(st.errors) > 0,
                                       st.errors, None)]
        /\ streak' = [streak EXCEPT ![h] =
                          IF "scf_convergence" \in st.errors THEN @ ELSE <<>>]
        /\ UNCHANGED <<cfg, input_file, prev_file, archive,
                       activate_better_scf_guess, lot_count, job_dir>>

-----------------------------------------------------------------------------
\* GaussianErrorHandler.correct.

\* default of the constructor argument scf_max_cycles
DefaultScfMaxCycles == 100

\* an action record {k: value}; n carries a number, s a string
Action(k, n, s) == [k |-> k, n |-> n, s |-> s]

\* lines 160-167: the list handed to backup; present is what glob finds in the
\* job directory.  glob('*.chk')[0] raises IndexError when there is no
\* checkpoint, which leaves the try block before '*.fchk' is looked up.
backup_files(present) ==
    <<"input_file", "output_file", "stderr_file">>
    \o (IF "chk" \in present
        THEN <<"chk">> \o (IF "fchk" \in present THEN <<"fchk">> ELSE <<>>)
        ELSE <<>>)

\* custodian.utils.backup: the package holds the named files as they are on
\* disk when it is called
backup(h, names) ==
    [names |-> names, input |-> input_file[h]]

\* the results of lines 169-227: the input object to write, a terminal
\* failure or an exception
Mutated(g, acts, flag) ==
    [kind |-> "mutated", gin |-> g, actions |-> acts, flag |-> flag, exc |-> ""]
Terminal(g, flag) ==
    [kind |-> "terminal", gin |-> g, actions |-> <<>>, flag |-> flag, exc |-> ""]
Raise(g, flag, exc) ==
    [kind |-> "raised", gin |-> g, actions |-> <<>>, flag |-> flag, exc |-> exc]

\* dict.get(k) on an inner dict
Get(f, k) == IF k \in DOMAIN f THEN f[k] ELSE NoneVal

\* lines 216-227: the input the linear-bend remedy builds
LinearBendInput(g) ==
    [g EXCEPT !.route_parameters = ("geom" :> Word("(checkpoint, newdefinition)"))]

\* lines 175-177: branch 1a, raise the cap to the configured maximum
RaiseCap(g, c, flag) ==
    Mutated(
        [g EXCEPT !.route_parameters["scf"].d =
             ("maxcycle" :> IntVal(c.scf_max_cycles)) @@ @],
        <<Action("scf_max_cycles", c.scf_max_cycles, "")>>, flag)

\* faulty variant of AltAlgorithm: the last of the three convergers is
\* requested instead of the first
AltAlgorithm_Qc(g, c, flag) ==
    Mutated(
        [g EXCEPT !.route_parameters["scf"].d = ("qc" :> NoneVal) @@ @],
        <<Action("scf_algorithm", 0, "qc")>>, flag)

\* lines 182-183: branch 1b, request the alternate converger xqc
AltAlgorithm(g, c, flag) ==
    Mutated(
        [g EXCEPT !.route_parameters["scf"].d = ("xqc" :> NoneVal) @@ @],
        <<Action("scf_algorithm", 0, "xqc")>>, flag)

\* faulty variant of BetterGuess: the assignment of line 195 is missing
BetterGuess_FlagNotSet(g, c, flag) ==
    Mutated(
        [g EXCEPT !.functional = c.scf_functional,
                  !.basis_set = c.scf_basis_set],
        <<Action("scf_level_of_theory", 0, "better_scf_guess")>>, flag)

\* lines 188-195: branch 1c, the lower level of theory; sets the class flag
BetterGuess(g, c, flag) ==
    Mutated(
        [g EXCEPT !.functional = c.scf_functional,
                  !.basis_set = c.scf_basis_set],
        <<Action("scf_level_of_theory", 0, "better_scf_guess")>>, TRUE)

\* faulty variant of Exhausted: the return of line 205 is missing, so that
\* correct goes on to lines 228-230
Exhausted_FallsThrough(g, c, flag) == Mutated(g, <<>>, flag)

\* lines 197-205: branch 1d, return with actions None
Exhausted(g, c, flag) == Terminal(g, flag)

\* lines 169-205: the remedies for 'scf_convergence'
ScfBranch(g, c, flag) ==
    LET route == g.route_parameters
    IN  IF "scf" \notin DOMAIN route \/ route["scf"].kind # "dict"
        THEN \* route_parameters.get('scf') is None or a str: no .get
             Raise(g, flag, "AttributeError")
        ELSE IF Get(route["scf"].d, "maxcycle") # str(IntVal(c.scf_max_cycles))
        THEN RaiseCap(g, c, flag)
        ELSE IF {"xqc", "yqc", "qc"} \cap DOMAIN route["scf"].d = {}
        THEN AltAlgorithm(g, c, flag)
        ELSE IF c.job_type = "better_scf_guess" /\ ~flag
        THEN BetterGuess(g, c, flag)
        ELSE Exhausted(g, c, flag)

\* faulty variant of Remedy: the linear-bend branch is tested first, on the
\* signature, and rebuilds the input
Remedy_LinearBendFirst(errs, g, c, flag) ==
    IF "linear_bend" \in errs
    THEN Mutated(LinearBendInput(g), <<>>, flag)
    ELSE IF "scf_convergence" \in errs
    THEN ScfBranch(g, c, flag)
    ELSE Mutated(g, <<>>, flag)

\* faulty variant of Remedy: without a remedy correct returns as branch 1d
\* does, with actions None
Remedy_NoRemedyIsTerminal(errs, g, c, flag) ==
    IF "scf_convergence" \in errs
    THEN ScfBranch(g, c, flag)
    ELSE IF "FormBX had a problem." \in errs
    THEN Raise(g, flag, "TypeError")
    ELSE Terminal(g, flag)

\* lines 169-227: errs is self.errors, g is self.gin, c the configuration
\* and flag the class attribute activate_better_scf_guess
Remedy(errs, g, c, flag) ==
    IF "scf_convergence" \in errs
    THEN ScfBranch(g, c, flag)
    ELSE IF "FormBX had a problem." \in errs
    THEN \* line 210 calls the dict link0_parameters
         Raise(g, flag, "TypeError")
    ELSE Mutated(g, <<>>, flag)

\* the supervising loop calls correct only after check has returned True
should_correct(h) ==
    /\ pc[h] = "checked"
    /\ ret[h].flag

\* faulty variant of Archive: backup is called after lines 228-229
Archive_AfterWrite(h, present) ==
    archive' = [archive EXCEPT ![h] =
                   Some([names |-> backup_files(present), input |-> input_file'[h]])]

\* line 168: the package is made of the files as they are before the step
Archive(h, present) ==
    archive' = [archive EXCEPT ![h] = Some(backup(h, backup_files(present)))]

\* faulty variant of Persist: the rename of line 228 is missing
Persist_NoRename(h, g) ==
    /\ prev_file' = prev_file
    /\ input_file' = [input_file EXCEPT ![h] = write_file(g)]

\* faulty variant of Persist: nothing is renamed or written when the text
\* to write is the text the input file holds
Persist_SkipUnchanged(h, g) ==
    IF write_file(g) = input_file[h]
    THEN UNCHANGED <<input_file, prev_file>>
    ELSE /\ prev_file' = [prev_file EXCEPT ![h] = Some(input_file[h])]
         /\ input_file' = [input_file EXCEPT ![h] = write_file(g)]

\* lines 228-229: rename the input to '.prev', write g to the input path
Persist(h, g) ==
    /\ prev_file' = [prev_file EXCEPT ![h] = Some(input_file[h])]
    /\ input_file' = [input_file EXCEPT ![h] = write_file(g)]

\* correct() of handler h when glob finds the files named by present
Correct(h, present) ==
    LET r == Remedy(errors[h], gin[h][1], cfg[h], activate_better_scf_guess)
    IN  /\ should_correct(h)
        /\ gin' = [gin EXCEPT ![h] = Some(r.gin)]
        /\ activate_better_scf_guess' = r.flag
        /\ lot_count' = IF /\ r.kind = "mutated"
                           /\ \E i \in DOMAIN r.actions :
                                 r.actions[i].k = "scf_level_of_theory"
                        THEN IF lot_count < LotCap THEN lot_count + 1 ELSE LotCap
                        ELSE lot_count
        /\ CASE r.kind = "mutated" ->
                  /\ Persist(h, r.gin)
                  /\ pc' = [pc EXCEPT ![h] = "corrected"]
                  /\ ret' = [ret EXCEPT ![h] =
                                Returned("correct", FALSE, errors[h], Some(r.actions))]
             [] r.kind = "terminal" ->
                  /\ pc' = [pc EXCEPT ![h] = "failed"]
                  /\ ret' = [ret EXCEPT ![h] =
                                Returned("correct", FALSE, errors[h], None)]
                  /\ UNCHANGED <<input_file, prev_file>>
             [] OTHER ->
                  /\ pc' = [pc EXCEPT ![h] = "correct_raised"]
                  /\ ret' = [ret EXCEPT ![h] = Raised("correct", r.exc)]
                  /\ UNCHANGED <<input_file, prev_file>>
        /\ Archive(h, present)
        /\ job_dir' = [job_dir EXCEPT ![h] = present]
        /\ streak' = [streak EXCEPT ![h] =
                          IF /\ r.kind = "mutated"
                             /\ "scf_convergence" \in errors[h]
                             /\ Len(@) + Len(r.actions) <= StreakCap
                          THEN @ \o [i \in DOMAIN r.actions |-> r.actions[i].k]
                          ELSE @]
        /\ UNCHANGED <<cfg, errors, conv_data, output_file, start_input>>

\* __init__: a new handler object for job directory h
Construct(h, c) ==
    /\ cfg' = [cfg EXCEPT ![h] = c]
    /\ pc' = [pc EXCEPT ![h] = "new"]
    /\ gin' = [gin EXCEPT ![h] = None]
    /\ errors' = [errors EXCEPT ![h] = {}]
    /\ conv_data' = [conv_data EXCEPT ![h] = None]
    /\ ret' = [ret EXCEPT ![h] = NoCall]
    /\ streak' = [streak EXCEPT ![h] = <<>>]
    /\ UNCHANGED <<input_file, prev_file, output_file, archive,
                   activate_better_scf_guess, start_input, lot_count, job_dir>>

-----------------------------------------------------------------------------
\* The inputs the specifications draw from.

Tok(key, kind, w, d) == [key |-> key, kind |-> kind, s |-> w, d |-> d]

OptTok == Tok("opt", "none", "", <<>>)
ScfTokens ==
    { Tok("scf", "dict", "", <<<<"maxcycle", StrVal(50)>>>>),
      Tok("scf", "dict", "", <<<<"maxcycle", StrVal(100)>>>>),
      Tok("scf", "dict", "", <<<<"maxcycle", StrVal(100)>>, <<"xqc", NoneVal>>>>),
      Tok("scf", "dict", "", <<<<"qc", NoneVal>>, <<"maxcycle", StrVal(100)>>>>),
      Tok("scf", "dict", "", <<<<"xqc", NoneVal>>>>),
      Tok("SCF", "dict", "", <<<<"MaxCycle", StrVal(50)>>>>),
      Tok("scf", "str", "tight", <<>>) }

NoLink0 == [k \in {} |-> ""]
ChkLink0 == ("%chk" :> "job.chk")

Text(route, link0) ==
    [route |-> route, functional |-> "b3lyp", basis_set |-> "6-31g",
     link0 |-> link0, charge |-> 0, spin_multiplicity |-> 1, title |-> "job"]

CorrRoutes ==
    {<<>>, <<OptTok>>} \cup {<<t>> : t \in ScfTokens}
    \cup {<<t, OptTok>> : t \in {u \in ScfTokens : u.d = <<<<"maxcycle", StrVal(50)>>>>}}

\* every route with a checkpoint reference, two of them also without one
CorrTexts ==
    {Text(r, ChkLink0) : r \in CorrRoutes}
    \cup {Text(r, NoLink0) : r \in {q \in CorrRoutes : Len(q) = 1 /\ q[1].d = <<>>}}

Config(job_type, check_convergence) ==
    [scf_max_cycles |-> DefaultScfMaxCycles, job_type |-> job_type,
     scf_functional |-> "hf", scf_basis_set |-> "sto-3g",
     check_convergence |-> check_convergence]

CorrConfigs == {Config(j, TRUE) : j \in {"normal", "better_scf_guess"}}

Plain == [lits |-> <<>>, crit |-> "", val |-> <<"txt", 0>>, thr |-> 0]
LitLine(ls) == [lits |-> ls, crit |-> "", val |-> <<"txt", 0>>, thr |-> 0]
CritLine(k, v, t) == [lits |-> <<>>, crit |-> k, val |-> v, thr |-> t]

\* one log for every set of literals: a line for each literal of the set
LiteralOrder == <<"Convergence failure", "FormBX had a problem",
                  "Inv3 failed in PCMMkU", "Optimization stopped">>

LogOf(S) ==
    LET ls == SelectSeq(LiteralOrder, LAMBDA l : l \in S)
    IN  [i \in DOMAIN ls |-> LitLine(<<ls[i]>>)]

\* a log for every set of literals, and one whose SCF failure follows an
\* optimization step with the maximum force within its threshold
CorrLogs ==
    {LogOf(S) : S \in SUBSET Literals}
    \cup {<<CritLine("max_force", <<"num", 1>>, 2)>>
            \o LogOf({"Convergence failure"})}

SeqsUpTo(S, n) == UNION {[1..m -> S] : m \in 0..n}

\* the scanning specification: an optimization job and one that is not,
\* tracking on and off, logs of lines with one literal, with two literals,
\* with a convergence criterion and a number or a placeholder
ScanTexts == {Text(<<OptTok>>, ChkLink0), Text(<<>>, ChkLink0)}

ScanConfigs == {Config("normal", b) : b \in BOOLEAN}

ScanLines ==
    { LitLine(<<"Convergence failure">>),
      LitLine(<<"Optimization stopped", "FormBX had a problem">>),
      CritLine("max_force", <<"num", 5>>, 1),
      CritLine("max_force", <<"num", 1>>, 2),
      CritLine("max_force", <<"txt", 0>>, 1) }

ScanLogs == SeqsUpTo(ScanLines, MaxScanLen)

\* the process specification: two job directories whose handlers share the
\* class attribute, inputs at the last two remedies, logs with the SCF failure
ProcTexts ==
    {Text(<<t>>, ChkLink0) :
        t \in {u \in ScfTokens : u.kind = "dict" /\ Len(u.d) = 2}}

ProcLogs == {LogOf({"Convergence failure"})}

GlobResults == SUBSET {"chk", "fchk"}
CorrGlobs == {{"chk", "fchk"}}

-----------------------------------------------------------------------------
\* Specifications.

InitOn(jobs, texts) ==
    /\ cfg = [h \in Handlers |-> Config("normal", TRUE)]
    /\ pc = [h \in Handlers |-> "none"]
    /\ gin = [h \in Handlers |-> None]
    /\ errors = [h \in Handlers |-> {}]
    /\ conv_data = [h \in Handlers |-> None]
    /\ ret = [h \in Handlers |-> NoCall]
    /\ input_file \in [Handlers -> texts \cup {Text(<<>>, NoLink0)}]
    /\ \A h \in Handlers :
          IF h \in jobs THEN input_file[h] \in texts
          ELSE input_file[h] = Text(<<>>, NoLink0)
    /\ prev_file = [h \in Handlers |-> None]
    /\ output_file = [h \in Handlers |-> <<>>]
    /\ archive = [h \in Handlers |-> None]
    /\ activate_better_scf_guess = FALSE
    /\ start_input = input_file
    /\ lot_count = 0
    /\ job_dir = [h \in Handlers |-> {}]
    /\ streak = [h \in Handlers |-> <<>>]

NextOn(jobs, configs, logs, globs) ==
    \E h \in jobs :
        \/ \E c \in configs : Construct(h, c)
        \/ \E log \in logs : Check(h, log)
        \/ \E present \in globs : Correct(h, present)

\* one job directory, the inputs and logs that reach every branch of correct
Init == InitOn({"jobA"}, CorrTexts)
Next == NextOn({"jobA"}, CorrConfigs, CorrLogs, CorrGlobs)
Spec == Init /\ [][Next]_vars

InitScan == InitOn({"jobA"}, ScanTexts)
NextScan == NextOn({"jobA"}, ScanConfigs, ScanLogs, GlobResults)
SpecScan == InitScan /\ [][NextScan]_vars

InitProcess == InitOn(Handlers, ProcTexts)
NextProcess == NextOn(Handlers, CorrConfigs, ProcLogs, {{}})
SpecProcess == InitProcess /\ [][NextProcess]_vars

TypeOK ==
    /\ \A h \in Handlers : pc[h] \in {"none", "new", "checked", "check_raised",
                                      "corrected", "failed", "correct_raised"}
    /\ activate_better_scf_guess \in BOOLEAN
    /\ lot_count \in 0..LotCap

-----------------------------------------------------------------------------
\* Vocabulary of the properties.

\* handler h has returned from (or left by an exception) a call of correct
AfterCorrect(h) == pc[h] \in {"corrected", "failed", "correct_raised"}

\* the input as the check of the current cycle parsed it
CycleInput(h) == ParseInput(start_input[h])

HasScfDict(g) ==
    /\ "scf" \in DOMAIN g.route_parameters
    /\ g.route_parameters["scf"].kind = "dict"

ScfDict(g) == g.route_parameters["scf"].d

WithMaxCycle(g, v) ==
    [g EXCEPT !.route_parameters["scf"].d = ("maxcycle" :> v) @@ @]

AltAlgorithms == {"xqc", "yqc", "qc"}

\* this step is a call of correct by handler h
CorrectStep(h) == should_correct(h) /\ AfterCorrect(h)'

LotAction == Action("scf_level_of_theory", 0, "better_scf_guess")

\* the literals that occur in some line of a log
LiteralsIn(log) ==
    UNION {{log[i].lits[j] : j \in DOMAIN log[i].lits} : i \in DOMAIN log}

\* check has been called in the current cycle and correct not yet
AfterCheck(h) == pc[h] \in {"checked", "check_raised"}

\* the condition of lines 139 and 152 as check of the current cycle saw it
Tracking(h) ==
    cfg[h].check_convergence /\ "opt" \in DOMAIN CycleInput(h).route_parameters

\* the lines of log that the pattern of metric k matches
MetricLines(log, k) == SelectSeq(log, LAMBDA l : l.crit = k)

\* the numeric current values of metric k in log, in log order
NumericSeries(log, k) ==
    LET ls == SelectSeq(MetricLines(log, k), LAMBDA l : l.val[1] = "num")
    IN  [i \in DOMAIN ls |-> ls[i].val[2]]

\* the lines of metric k whose current value is a placeholder
Placeholders(log, k) ==
    SelectSeq(MetricLines(log, k), LAMBDA l : l.val[1] # "num")

\* a trace with at least one metric, each latest value within its threshold
Healthy(cd) ==
    /\ DOMAIN cd.values # {}
    /\ \A k \in DOMAIN cd.values :
           cd.values[k][Len(cd.values[k])] <= cd.thresh[k]

-----------------------------------------------------------------------------
\* C1: in a cycle that detected scf_convergence on an input whose scf
\* directive holds a maxcycle other than the configured maximum, correct sets
\* maxcycle to the configured maximum, returns [{scf_max_cycles: maximum}] and
\* changes nothing else; the file it writes parses back with maxcycle equal
\* to the maximum, so that on the same errors the next cycle does not raise the
\* cap again and goes on to the alternate algorithm when none is requested.
C1_RaiseCapOnce ==
    \A h \in Handlers :
        LET g0 == CycleInput(h)
            max == cfg[h].scf_max_cycles
        IN  ( /\ AfterCorrect(h)
              /\ "scf_convergence" \in errors[h]
              /\ HasScfDict(g0)
              /\ Get(ScfDict(g0), "maxcycle") # StrVal(max) )
            =>
            /\ pc[h] = "corrected"
            /\ ret[h].actions = Some(<<Action("scf_max_cycles", max, "")>>)
            /\ gin[h] = Some(WithMaxCycle(g0, IntVal(max)))
            /\ input_file[h] = write_file(gin[h][1])
            /\ LET g1 == ParseInput(input_file[h])
                   r == Remedy(errors[h], g1, cfg[h], activate_better_scf_guess)
               IN  /\ g1 = WithMaxCycle(g0, StrVal(max))
                   /\ r.kind # "raised"
                   /\ \A i \in DOMAIN r.actions : r.actions[i].k # "scf_max_cycles"
                   /\ (AltAlgorithms \cap DOMAIN ScfDict(g1) = {}
                        => /\ r.kind = "mutated"
                           /\ r.actions = <<Action("scf_algorithm", 0, "xqc")>>)

\* the scenario of the specification: maxcycle 50, maximum 100
C1_Witness ==
    \E h \in Handlers :
        /\ pc[h] = "corrected"
        /\ "scf_convergence" \in errors[h]
        /\ HasScfDict(CycleInput(h))
        /\ Get(ScfDict(CycleInput(h)), "maxcycle") = StrVal(50)
        /\ cfg[h].scf_max_cycles = 100
        /\ ret[h].actions = Some(<<Action("scf_max_cycles", 100, "")>>)
        /\ Get(ScfDict(ParseInput(input_file[h])), "maxcycle") = StrVal(100)

-----------------------------------------------------------------------------
\* C2: when scf_convergence is among the detected signatures, whatever else
\* is detected, every effect of correct (the input object, the flag, the files,
\* the actions or the terminal failure) is the one the set {scf_convergence}
\* alone gives on the same input, configuration and flag.
C2_ScfBranchFirst ==
    [][\A h \in Handlers :
         (CorrectStep(h) /\ "scf_convergence" \in errors[h]) =>
         LET r == Remedy({"scf_convergence"}, gin[h][1], cfg[h],
                         activate_better_scf_guess)
         IN  /\ gin'[h] = Some(r.gin)
             /\ activate_better_scf_guess' = r.flag
             /\ (r.kind = "mutated" =>
                   /\ pc'[h] = "corrected"
                   /\ ret'[h].actions = Some(r.actions)
                   /\ input_file'[h] = write_file(r.gin)
                   /\ prev_file'[h] = Some(input_file[h]))
             /\ (r.kind = "terminal" =>
                   /\ pc'[h] = "failed"
                   /\ ret'[h].actions = None
                   /\ input_file'[h] = input_file[h]
                   /\ prev_file'[h] = prev_file[h])
             /\ (r.kind = "raised" =>
                   /\ pc'[h] = "correct_raised"
                   /\ ret'[h].exc = r.exc
                   /\ input_file'[h] = input_file[h]
                   /\ prev_file'[h] = prev_file[h])
      ]_vars

\* all four signatures detected, the SCF remedy applied
C2_Witness ==
    \E h \in Handlers :
        /\ pc[h] = "corrected"
        /\ errors[h] = {"scf_convergence", "opt_steps", "linear_bend",
                        "solute_solvent_surface"}
        /\ ret[h].actions = Some(<<Action("scf_algorithm", 0, "xqc")>>)

-----------------------------------------------------------------------------
\* C3: over the cycles of all handlers of the process, the lower level of
\* theory is applied at most once; the class flag starts false, changes only
\* in a call of correct that applies that remedy, only from false to true,
\* and no step (check, correct, a new handler) sets it back.
C3_BetterGuessOnce ==
    /\ activate_better_scf_guess = FALSE
    /\ [](lot_count <= 1)
    /\ [][ /\ (activate_better_scf_guess => activate_better_scf_guess')
           /\ (activate_better_scf_guess' # activate_better_scf_guess =>
                 \E h \in Handlers :
                    /\ CorrectStep(h)
                    /\ ret'[h].actions = Some(<<LotAction>>))
           /\ (\A h \in Handlers :
                 (CorrectStep(h) /\ ret'[h].actions = Some(<<LotAction>>)) =>
                 (~activate_better_scf_guess /\ activate_better_scf_guess'))
         ]_vars

\* one job has taken the lower level of theory, another job in the same mode
\* and at the same point has been refused it
C3_Witness ==
    \E h1, h2 \in Handlers :
        /\ h1 # h2
        /\ ret[h1].actions = Some(<<LotAction>>)
        /\ pc[h2] = "failed"
        /\ cfg[h2].job_type = "better_scf_guess"
        /\ activate_better_scf_guess
        /\ lot_count = 1

-----------------------------------------------------------------------------
\* C4: when linear_bend is detected without scf_convergence and the input
\* has no %chk, correct raises and leaves the input file and '.prev' as they
\* were.
C4_LinearBendWithoutChkRaises ==
    [][\A h \in Handlers :
         ( /\ CorrectStep(h)
           /\ "linear_bend" \in errors[h]
           /\ "scf_convergence" \notin errors[h]
           /\ "%chk" \notin DOMAIN gin[h][1].link0_parameters )
         =>
         /\ pc'[h] = "correct_raised"
         /\ input_file'[h] = input_file[h]
         /\ prev_file'[h] = prev_file[h]
      ]_vars

-----------------------------------------------------------------------------
\* C5: when scf_convergence is detected, maxcycle equals the configured
\* maximum, an alternate algorithm is requested and the job type is not
\* better_scf_guess or the flag is set, correct returns actions None with
\* the detected signatures and changes neither the input file, nor '.prev',
\* nor the flag.
C5_ExhaustedIsTerminal ==
    [][\A h \in Handlers :
         ( /\ CorrectStep(h)
           /\ "scf_convergence" \in errors[h]
           /\ HasScfDict(gin[h][1])
           /\ Get(ScfDict(gin[h][1]), "maxcycle") = StrVal(cfg[h].scf_max_cycles)
           /\ AltAlgorithms \cap DOMAIN ScfDict(gin[h][1]) # {}
           /\ (cfg[h].job_type # "better_scf_guess" \/ activate_better_scf_guess) )
         =>
         /\ pc'[h] = "failed"
         /\ ret'[h].exc = ""
         /\ ret'[h].actions = None
         /\ ret'[h].errors = errors[h]
         /\ input_file'[h] = input_file[h]
         /\ prev_file'[h] = prev_file[h]
         /\ activate_better_scf_guess' = activate_better_scf_guess
      ]_vars

\* a job in better_scf_guess mode refused after the flag was set
C5_Witness ==
    \E h \in Handlers :
        /\ pc[h] = "failed"
        /\ "scf_convergence" \in errors[h]
        /\ cfg[h].job_type = "better_scf_guess"
        /\ activate_better_scf_guess
        /\ ret[h].actions = None
        /\ input_file[h] = start_input[h]

-----------------------------------------------------------------------------
\* C6: in every cycle in which correct writes an input, '.prev' then holds
\* the text the input file had when the cycle started and the input path holds
\* the serialisation of the input object correct ends with.
C6_PrevHoldsOriginal ==
    [][\A h \in Handlers :
         (CorrectStep(h) /\ pc'[h] = "corrected") =>
         /\ input_file[h] = start_input[h]
         /\ prev_file'[h] = Some(input_file[h])
         /\ input_file'[h] = write_file(gin'[h][1])
      ]_vars

\* a remedy was applied, the file has changed and '.prev' is the original
C6_Witness ==
    \E h \in Handlers :
        /\ pc[h] = "corrected"
        /\ ret[h].actions # Some(<<>>)
        /\ prev_file[h] = Some(start_input[h])
        /\ input_file[h] # start_input[h]
        /\ input_file[h] = write_file(gin[h][1])

-----------------------------------------------------------------------------
\* C7: for a log none of whose lines holds a failure literal, check returns
\* False with an empty signature set and raises nothing.
C7_NoLiteralIsHealthy ==
    \A h \in Handlers :
        ( /\ pc[h] \in {"checked", "check_raised"}
          /\ LiteralsIn(output_file[h]) = {} )
        =>
        /\ pc[h] = "checked"
        /\ errors[h] = {}
        /\ ret[h].flag = FALSE

-----------------------------------------------------------------------------
\* C8: every call of correct, whatever its branch, makes the archive from
\* the input file as the cycle found it, and the input file or '.prev' change
\* only in a step that has made that archive.
C8_ArchiveBeforeMutation ==
    [][\A h \in Handlers :
         /\ CorrectStep(h) =>
              /\ archive'[h] # None
              /\ archive'[h][1].input = input_file[h]
              /\ archive'[h][1].input = start_input[h]
              /\ \E i \in DOMAIN archive'[h][1].names :
                    archive'[h][1].names[i] = "input_file"
         /\ (input_file'[h] # input_file[h] \/ prev_file'[h] # prev_file[h]) =>
              /\ CorrectStep(h)
              /\ archive'[h] # None
              /\ archive'[h][1].input = input_file[h]
      ]_vars

\* the input was rewritten and the archive holds what it was before
C8_Witness ==
    \E h \in Handlers :
        /\ pc[h] = "corrected"
        /\ input_file[h] # start_input[h]
        /\ archive[h] # None
        /\ archive[h][1].input = start_input[h]

-----------------------------------------------------------------------------
\* C9: when linear_bend is detected without scf_convergence and the input
\* has a %chk, correct ends with, and writes, the input whose only route
\* directive is geom=(checkpoint, newdefinition) and whose other fields are
\* those of the parsed input.
C9_LinearBendRebuildsInput ==
    \A h \in Handlers :
        ( /\ AfterCorrect(h)
          /\ "linear_bend" \in errors[h]
          /\ "scf_convergence" \notin errors[h]
          /\ "%chk" \in DOMAIN CycleInput(h).link0_parameters )
        =>
        /\ pc[h] = "corrected"
        /\ gin[h] = Some(LinearBendInput(CycleInput(h)))
        /\ input_file[h] = write_file(LinearBendInput(CycleInput(h)))

-----------------------------------------------------------------------------
\* C10: the signature set check ends with is the set of the signatures of
\* all the literals that occur in the log, two literals of one line included.
C10_AllLiteralsReported ==
    \A h \in Handlers :
        pc[h] = "checked" =>
        errors[h] = {error_defs[l] : l \in LiteralsIn(output_file[h])}

-----------------------------------------------------------------------------
\* C11: when the detected signatures are only opt_steps and/or
\* solute_solvent_surface, correct returns them with the empty action list
\* (not None) and leaves the flag as it is.
C11_NoRemedyEmptyActions ==
    [][\A h \in Handlers :
         ( /\ CorrectStep(h)
           /\ errors[h] # {}
           /\ errors[h] \subseteq {"opt_steps", "solute_solvent_surface"} )
         =>
         /\ ret'[h].exc = ""
         /\ ret'[h].errors = errors[h]
         /\ ret'[h].actions = Some(<<>>)
         /\ activate_better_scf_guess' = activate_better_scf_guess
      ]_vars

\* both signatures without a remedy detected, the empty list returned
C11_Witness ==
    \E h \in Handlers :
        /\ pc[h] = "corrected"
        /\ errors[h] = {"opt_steps", "solute_solvent_surface"}
        /\ ret[h].actions = Some(<<>>)

-----------------------------------------------------------------------------
\* C12: the package made by correct names the input, output and stderr
\* files, the checkpoint exactly when one is in the job directory and the
\* formatted checkpoint exactly when one is in the job directory, each
\* whether or not the other is there.
C12_ArchiveSet ==
    \A h \in Handlers :
        (AfterCorrect(h) /\ archive[h] # None) =>
        LET names == {archive[h][1].names[i] : i \in DOMAIN archive[h][1].names}
        IN  /\ {"input_file", "output_file", "stderr_file"} \subseteq names
            /\ ("chk" \in names <=> "chk" \in job_dir[h])
            /\ ("fchk" \in names <=> "fchk" \in job_dir[h])

-----------------------------------------------------------------------------
\* C16: when scf_convergence is detected and maxcycle equals the configured
\* maximum, correct requests xqc and returns [{scf_algorithm: 'xqc'}] if none
\* of xqc, yqc, qc is in the scf directive, changing nothing else of the input
\* nor the flag; if one of them is there, no algorithm is added and that
\* action is not returned.
C16_AlternateAlgorithm ==
    [][\A h \in Handlers :
         ( /\ CorrectStep(h)
           /\ "scf_convergence" \in errors[h]
           /\ HasScfDict(gin[h][1])
           /\ Get(ScfDict(gin[h][1]), "maxcycle") = StrVal(cfg[h].scf_max_cycles) )
         =>
         IF AltAlgorithms \cap DOMAIN ScfDict(gin[h][1]) = {}
         THEN /\ pc'[h] = "corrected"
              /\ ret'[h].actions = Some(<<Action("scf_algorithm", 0, "xqc")>>)
              /\ gin'[h] = Some([gin[h][1] EXCEPT
                                   !.route_parameters["scf"].d =
                                       ("xqc" :> NoneVal) @@ @])
              /\ activate_better_scf_guess' = activate_better_scf_guess
         ELSE /\ \A i \in DOMAIN ret'[h].actions :
                    \A j \in DOMAIN ret'[h].actions[i] :
                       ret'[h].actions[i][j].k # "scf_algorithm"
              /\ ScfDict(gin'[h][1]) = ScfDict(gin[h][1])
      ]_vars

\* xqc added to an scf directive that held only the cap at its maximum
C16_Witness ==
    \E h \in Handlers :
        /\ pc[h] = "corrected"
        /\ "scf_convergence" \in errors[h]
        /\ DOMAIN ScfDict(CycleInput(h)) = {"maxcycle"}
        /\ ret[h].actions = Some(<<Action("scf_algorithm", 0, "xqc")>>)
        /\ DOMAIN ScfDict(gin[h][1]) = {"maxcycle", "xqc"}
        /\ Get(ScfDict(gin[h][1]), "maxcycle") = StrVal(cfg[h].scf_max_cycles)

-----------------------------------------------------------------------------
\* C18: when scf_convergence is detected and the input has no scf maxcycle,
\* an input without any scf directive included, correct completes, sets
\* maxcycle to the configured maximum and returns the action scf_max_cycles.
C18_UnsetCapIsRaised ==
    [][\A h \in Handlers :
         ( /\ CorrectStep(h)
           /\ "scf_convergence" \in errors[h]
           /\ (~HasScfDict(gin[h][1])
                 \/ "maxcycle" \notin DOMAIN ScfDict(gin[h][1])) )
         =>
         /\ pc'[h] = "corrected"
         /\ ret'[h].exc = ""
         /\ ret'[h].actions =
                Some(<<Action("scf_max_cycles", cfg[h].scf_max_cycles, "")>>)
         /\ HasScfDict(gin'[h][1])
         /\ Get(ScfDict(gin'[h][1]), "maxcycle") = IntVal(cfg[h].scf_max_cycles)
      ]_vars

-----------------------------------------------------------------------------
\* C13: with tracking enabled on an optimization job, a log with one
\* placeholder line of a tracked metric among its numeric lines does not abort
\* check; the series of the metric is its numeric values in log order and the
\* signature of every line with a literal is detected.
C13_PlaceholderSkipped ==
    \A h \in Handlers :
        \A k \in conv_critera :
            ( /\ AfterCheck(h)
              /\ Tracking(h)
              /\ Len(Placeholders(output_file[h], k)) = 1 )
            =>
            /\ pc[h] = "checked"
            /\ conv_data[h] # None
            /\ LET series == NumericSeries(output_file[h], k)
                   values == conv_data[h][1].values
               IN  IF series = <<>>
                   THEN k \notin DOMAIN values
                   ELSE k \in DOMAIN values /\ values[k] = series
            /\ \A i \in DOMAIN output_file[h] :
                   output_file[h][i].lits # <<>> =>
                   error_defs[Head(output_file[h][i].lits)] \in errors[h]

-----------------------------------------------------------------------------
\* C14: in a cycle whose convergence trace is healthy, correct changes nothing
\* of the input object and neither renames nor rewrites the input file,
\* whatever signatures were detected.
C14_HealthyNotCorrected ==
    [][\A h \in Handlers :
         ( /\ CorrectStep(h)
           /\ conv_data[h] # None
           /\ Healthy(conv_data[h][1]) )
         =>
         /\ gin'[h] = gin[h]
         /\ input_file'[h] = input_file[h]
         /\ prev_file'[h] = prev_file[h]
      ]_vars

-----------------------------------------------------------------------------
\* C19: after each check the signatures are signatures of literals of the log
\* read in that check, the convergence trace holds values and thresholds of
\* lines of that log only, and the input object is the parse of the input
\* file as it is then; nothing of an earlier cycle is left in them.
C19_RebuiltEachCycle ==
    \A h \in Handlers :
        AfterCheck(h) =>
        /\ errors[h] \subseteq {error_defs[l] : l \in LiteralsIn(output_file[h])}
        /\ gin[h] = Some(ParseInput(input_file[h]))
        /\ conv_data[h] # None
        /\ LET cd == conv_data[h][1]
           IN  /\ DOMAIN cd.values = DOMAIN cd.thresh
               /\ ~Tracking(h) => DOMAIN cd.values = {}
               /\ \A k \in DOMAIN cd.values :
                      LET series == NumericSeries(output_file[h], k)
                      IN  /\ Len(cd.values[k]) <= Len(series)
                          /\ cd.values[k] = SubSeq(series, 1, Len(cd.values[k]))

\* a clean check after a cycle that found signatures and corrected the input
C19_Witness ==
    \E h \in Handlers :
        /\ pc[h] = "checked"
        /\ archive[h] # None
        /\ prev_file[h] # None
        /\ errors[h] = {}
        /\ conv_data[h] # None
        /\ DOMAIN conv_data[h][1].values # {}

-----------------------------------------------------------------------------
\* C20 as claimed: after check the threshold of each tracked metric is the one
\* of the last line of the log that matches the metric.
C20_ThresholdFromLastLine ==
    \A h \in Handlers :
        (pc[h] = "checked" /\ conv_data[h] # None) =>
        \A k \in DOMAIN conv_data[h][1].thresh :
            LET ls == MetricLines(output_file[h], k)
            IN  conv_data[h][1].thresh[k] = ls[Len(ls)].thr

\* C20 as amended: after check the threshold of each tracked metric is the one
\* of the first line of the log that matches the metric; later lines of the
\* metric do not change it.  When check returns on a tracked optimization job,
\* every metric with a matching line has a threshold.
C20_ThresholdFromFirstLine ==
    \A h \in Handlers :
        (AfterCheck(h) /\ conv_data[h] # None) =>
        /\ \A k \in DOMAIN conv_data[h][1].thresh :
               LET ls == MetricLines(output_file[h], k)
               IN  ls # <<>> /\ conv_data[h][1].thresh[k] = ls[1].thr
        /\ (pc[h] = "checked" /\ Tracking(h)) =>
               DOMAIN conv_data[h][1].thresh =
                   {k \in conv_critera : MetricLines(output_file[h], k) # <<>>}

\* two lines of one metric with different thresholds, the first one recorded
C20_Witness ==
    \E h \in Handlers :
        /\ pc[h] = "checked"
        /\ conv_data[h] # None
        /\ \E k \in DOMAIN conv_data[h][1].thresh :
               LET ls == MetricLines(output_file[h], k)
               IN  /\ Len(ls) >= 2
                   /\ ls[1].thr # ls[Len(ls)].thr
                   /\ conv_data[h][1].thresh[k] = ls[1].thr

-----------------------------------------------------------------------------
\* the most remedies a run of SCF failures can get under the job type of h
RemedyLimit(h) == IF cfg[h].job_type = "better_scf_guess" THEN 3 ELSE 2

NoRepeat(s) == \A i, j \in DOMAIN s : s[i] = s[j] => i = j

\* C15: along cycles that all detect scf_convergence, each on the input the
\* cycle before wrote, every correct either applies one remedy or returns the
\* terminal failure; the remedies applied are at most 2 for job type 'normal'
\* and 3 for 'better_scf_guess', and none is applied twice.
C15_BoundedCorrection ==
    [][\A h \in Handlers :
         (CorrectStep(h) /\ "scf_convergence" \in errors[h]) =>
         /\ pc'[h] \in {"corrected", "failed"}
         /\ pc'[h] = "corrected" => Len(streak'[h]) = Len(streak[h]) + 1
         /\ pc'[h] = "failed" => streak'[h] = streak[h]
         /\ Len(streak'[h]) <= RemedyLimit(h)
         /\ NoRepeat(streak'[h])
      ]_vars

-----------------------------------------------------------------------------
\* C17: whenever correct returns an empty action list or the terminal failure,
\* the input file is as it was before the cycle and '.prev' is neither created
\* nor overwritten.
C17_NoRemedyLeavesFiles ==
    [][\A h \in Handlers :
         ( /\ CorrectStep(h)
           /\ \/ pc'[h] = "failed"
              \/ pc'[h] = "corrected" /\ ret'[h].actions = Some(<<>>) )
         =>
         /\ input_file'[h] = input_file[h]
         /\ prev_file'[h] = prev_file[h]
      ]_vars

\* C17 as amended: a call of correct that returns an action list, empty or
\* not, renames the input to '.prev' and writes the input object to the input
\* path; a call that returns the terminal failure or raises leaves the input
\* file and '.prev' as they were.
C17_FilesFollowResult ==
    [][\A h \in Handlers :
         CorrectStep(h) =>
         IF pc'[h] = "corrected"
         THEN /\ ret'[h].actions # None
              /\ prev_file'[h] = Some(input_file[h])
              /\ input_file'[h] = write_file(gin'[h][1])
         ELSE /\ ret'[h].actions = None
              /\ input_file'[h] = input_file[h]
              /\ prev_file'[h] = prev_file[h]
      ]_vars

\* the empty action list returned, the input renamed and written again
C17_Witness ==
    \E h \in Handlers :
        /\ pc[h] = "corrected"
        /\ ret[h].actions = Some(<<>>)
        /\ prev_file[h] = Some(start_input[h])
        /\ input_file[h] = write_file(CycleInput(h))

====
